---- MODULE Spec2Model ----
(***************************************************************************)
(* The request normaliser of the Shortcut MCP server                       *)
(* (src/src/shortcut_client.py: ShortcutClient._make_request and           *)
(* ShortcutClient._make_request_async), the client wrappers built on it    *)
(* and the tool handlers of src/src/server.py that call the wrappers.      *)
(*                                                                         *)
(* One invocation is followed from its entry to its result: the request    *)
(* that is put on the wire, the response (or the absence of one) the       *)
(* network answers with, the value returned or the exception raised by     *)
(* the normaliser, and what the wrapper and the tool handler make of it.   *)
(*                                                                         *)
(* Library behaviour the code relies on (requests >= 2.27, httpx >= 0.28,  *)
(* the versions a fastmcp installation brings):                            *)
(*   - requests' raise_for_status raises HTTPError for 400..599 only;      *)
(*   - httpx's raise_for_status raises HTTPStatusError unless 200..299;    *)
(*   - requests' Response.json raises requests.exceptions.JSONDecodeError, *)
(*     a RequestException; httpx's raises json.JSONDecodeError, a          *)
(*     ValueError;                                                         *)
(*   - requests sends no body for data=None; httpx sends none for          *)
(*     json=None and the encoded document for every other value.           *)
(***************************************************************************)
EXTENDS Integers, Sequences, FiniteSets, TLC

VARIABLES
    client,     \* the ShortcutClient: api_token, base_url, headers
    pc,         \* "idle", "awaiting" (request on the wire), "done"
    call,       \* the normaliser invocation: variant, method, endpoint, params, data
    entry,      \* who invoked the normaliser: the layer, its name and arguments
    request,    \* the HTTP request issued, NoRequest when none was
    netCalls,   \* outbound network calls made by the invocation
    response,   \* what the network answered
    outcome,    \* the normaliser's result: a returned value or a raised exception
    wrapperOut, \* the client wrapper's result
    toolOut,    \* the tool handler's result
    tasks       \* the frames of the invocations that run concurrently

vars == <<client, pc, call, entry, request, netCalls, response, outcome,
          wrapperOut, toolOut, tasks>>

---------------------------------------------------------------------------
(* Bounds of the model.                                                    *)

\* most leading (or trailing) slashes on an endpoint handed to the normaliser
MaxSlashes == 2

\* invocations that run concurrently on the shared client
NumTasks == 2

---------------------------------------------------------------------------
(* Python values.  Every value is a pair <<tag, payload>>; a str is the    *)
(* sequence of the pieces it was concatenated from.                        *)

PyNone == <<"none", <<>> >>

PyStr(parts) == <<"str", parts>>

PyInt(n) == <<"int", n>>

PyBool(b) == <<"bool", b>>

PyDict(f) == <<"dict", f>>

PyList(s) == <<"list", s>>

EmptyDict == PyDict(<<>>)

IsNone(v) == v[1] = "none"

IsDict(v) == v[1] = "dict"

IsList(v) == v[1] = "list"

\* `k in v` for a dict v
HasKey(v, k) == IsDict(v) /\ k \in DOMAIN v[2]

\* v.get(k, default)
DictGet(v, k, default) == IF HasKey(v, k) THEN v[2][k] ELSE default

\* bool(v)
Truthy(v) ==
    CASE v[1] = "none" -> FALSE
      [] v[1] = "dict" -> DOMAIN v[2] # {}
      [] v[1] = "list" -> Len(v[2]) > 0
      [] v[1] = "str"  -> \E i \in DOMAIN v[2] : v[2][i] # ""
      [] v[1] = "int"  -> v[2] # 0
      [] v[1] = "bool" -> v[2]
      [] OTHER -> TRUE

---------------------------------------------------------------------------
(* Strings that are taken apart: a URL or an endpoint is the sequence of   *)
(* its pieces, each piece either the slash or a run without a slash.       *)

Slash == "/"

RECURSIVE Slashes(_)
Slashes(n) == IF n = 0 THEN <<>> ELSE <<Slash>> \o Slashes(n - 1)

\* str.lstrip('/')
RECURSIVE LStrip(_)
LStrip(s) ==
    IF s = <<>> THEN s
    ELSE IF Head(s) = Slash THEN LStrip(Tail(s)) ELSE s

\* config.SHORTCUT_API_BASE_URL
SHORTCUT_API_BASE_URL ==
    <<"https:", Slash, Slash, "api.app.shortcut.com", Slash, "api", Slash, "v3">>

\* config.SHORTCUT_API_TOKEN: the environment's token, never empty
SHORTCUT_API_TOKEN == "token"

\* ShortcutClient.__init__ under a configuration with base URL `base`
NewClient(base) ==
    [ api_token |-> SHORTCUT_API_TOKEN,
      base_url  |-> base,
      headers   |-> [ ContentType   |-> "application/json",
                      ShortcutToken |-> SHORTCUT_API_TOKEN ] ]

\* url = f"{self.base_url}/{endpoint.lstrip('/')}"
BuildUrl(base, endpoint) == base \o <<Slash>> \o LStrip(endpoint)

---------------------------------------------------------------------------
(* Methods.                                                                *)

Supported == {"GET", "POST", "PUT", "DELETE"}

\* the method strings handed to the normaliser
Methods == Supported \cup {"get", "delete", "PATCH"}

\* str.upper()
Upper(m) ==
    CASE m = "get"    -> "GET"
      [] m = "post"   -> "POST"
      [] m = "put"    -> "PUT"
      [] m = "delete" -> "DELETE"
      [] m = "patch"  -> "PATCH"
      [] OTHER -> m

\* a chain whose last branch takes every other method for a GET
IsSupported_DefaultsToGet(method) == TRUE

\* the if/elif chain reaches one of the four branches
IsSupported(method) == Upper(method) \in Supported

---------------------------------------------------------------------------
(* Requests.                                                               *)

NoBody == <<"nobody", <<>> >>

NoRequest ==
    [ sent |-> FALSE, verb |-> "", url |-> <<>>,
      headers |-> [ ContentType |-> "", ShortcutToken |-> "" ],
      params |-> PyNone, body |-> NoBody ]

\* requests.get/post/put/delete(url, headers=, params=, data=json.dumps(data) if data else None)
SyncRequest(c, method, endpoint, params, data) ==
    [ sent    |-> TRUE,
      verb    |-> Upper(method),
      url     |-> BuildUrl(c.base_url, endpoint),
      headers |-> c.headers,
      params  |-> params,
      body    |-> IF Upper(method) \in {"POST", "PUT"} /\ Truthy(data)
                  THEN data ELSE NoBody ]

\* a call that leaves the token header out of its request
AsyncRequest_NoToken(c, method, endpoint, params, data) ==
    [ sent    |-> TRUE,
      verb    |-> Upper(method),
      url     |-> BuildUrl(c.base_url, endpoint),
      headers |-> [ ContentType |-> c.headers.ContentType, ShortcutToken |-> "" ],
      params  |-> params,
      body    |-> IF Upper(method) \in {"POST", "PUT"} /\ ~IsNone(data)
                  THEN data ELSE NoBody ]

\* client.get/post/put/delete(url, headers=, params=, json=data)
AsyncRequest(c, method, endpoint, params, data) ==
    [ sent    |-> TRUE,
      verb    |-> Upper(method),
      url     |-> BuildUrl(c.base_url, endpoint),
      headers |-> c.headers,
      params  |-> params,
      body    |-> IF Upper(method) \in {"POST", "PUT"} /\ ~IsNone(data)
                  THEN data ELSE NoBody ]

BuildRequest(variant, c, method, endpoint, params, data) ==
    IF variant = "sync"
    THEN SyncRequest(c, method, endpoint, params, data)
    ELSE AsyncRequest(c, method, endpoint, params, data)

---------------------------------------------------------------------------
(* Responses and their bodies.                                             *)

\* nothing on the wire yet, or no network call at all
NoResponse == [ kind |-> "none", status |-> 0, text |-> "" ]

\* connection refused, timeout, DNS failure: no response was received
TransportFailure == [ kind |-> "error", status |-> 0, text |-> "" ]

HttpResponse(status, text) == [ kind |-> "http", status |-> status, text |-> text ]

\* the statuses the remote API answers with
Statuses == {200, 201, 204, 404, 500}

StoryA == PyDict([ id |-> PyInt(1), name |-> PyStr(<<"A">>) ])

StoryB == PyDict([ id |-> PyInt(2), name |-> PyStr(<<"B">>) ])

\* the response bodies the remote API answers with
Bodies ==
    { "[]",
      "[{\"id\":1,\"name\":\"A\"}]",
      "[{\"id\":1,\"name\":\"A\"},{\"id\":2,\"name\":\"B\"}]",
      "{\"id\":1,\"name\":\"A\"}",
      "{\"id\":1,\"name\":\"A\",\"error\":\"none\"}",
      "{\"message\":\"not found\"}",
      "{\"data\":[{\"id\":1,\"name\":\"A\"}]}",
      "{}",
      "null",
      "oops",
      "" }

Responses ==
    {TransportFailure} \cup { HttpResponse(s, t) : s \in Statuses, t \in Bodies }

\* json.loads(text): ok is FALSE where the decoder raises
JsonLoads(text) ==
    CASE text = "[]" ->
            [ ok |-> TRUE, value |-> PyList(<<>>) ]
      [] text = "[{\"id\":1,\"name\":\"A\"}]" ->
            [ ok |-> TRUE, value |-> PyList(<<StoryA>>) ]
      [] text = "[{\"id\":1,\"name\":\"A\"},{\"id\":2,\"name\":\"B\"}]" ->
            [ ok |-> TRUE, value |-> PyList(<<StoryA, StoryB>>) ]
      [] text = "{\"id\":1,\"name\":\"A\"}" ->
            [ ok |-> TRUE, value |-> StoryA ]
      [] text = "{\"id\":1,\"name\":\"A\",\"error\":\"none\"}" ->
            [ ok |-> TRUE,
              value |-> PyDict([ id |-> PyInt(1), name |-> PyStr(<<"A">>),
                                 error |-> PyStr(<<"none">>) ]) ]
      [] text = "{\"message\":\"not found\"}" ->
            [ ok |-> TRUE, value |-> PyDict([ message |-> PyStr(<<"not found">>) ]) ]
      [] text = "{\"data\":[{\"id\":1,\"name\":\"A\"}]}" ->
            [ ok |-> TRUE, value |-> PyDict([ data |-> PyList(<<StoryA>>) ]) ]
      [] text = "{}" ->
            [ ok |-> TRUE, value |-> EmptyDict ]
      [] text = "null" ->
            [ ok |-> TRUE, value |-> PyNone ]
      [] OTHER ->
            [ ok |-> FALSE, value |-> PyNone ]

\* requests: Response.raise_for_status raises HTTPError
RequestsRaisesForStatus(status) == 400 <= status /\ status < 600

\* httpx: Response.raise_for_status raises HTTPStatusError
HttpxRaisesForStatus(status) == ~(200 <= status /\ status < 300)

---------------------------------------------------------------------------
(* Results of the normaliser: a returned value or a raised exception.      *)

NoExc == [ type |-> "", msg |-> <<>> ]

NoOutcome == [ mode |-> "none", value |-> PyNone, exc |-> NoExc ]

Returned(v) == [ mode |-> "return", value |-> v, exc |-> NoExc ]

Raised(type, msg) ==
    [ mode |-> "raise", value |-> PyNone, exc |-> [ type |-> type, msg |-> msg ] ]

\* str(e) of the library's exception
StatusText(status) == <<"HTTP status ", ToString(status)>>

TransportText == <<"connection failed">>

DecodeText == <<"Expecting value">>

UnsupportedText(method) == <<"Unsupported HTTP method: ", method>>

\* the classes `except requests.exceptions.RequestException` catches
RequestExceptions ==
    {"requests.ConnectionError", "requests.HTTPError", "requests.JSONDecodeError"}

\* the classes `except Exception` catches
Exceptions ==
    RequestExceptions \cup
    {"Exception", "ValueError", "httpx.ConnectError", "httpx.HTTPStatusError",
     "json.JSONDecodeError"}

\* a try block that parses the body before it looks at the status code
SyncTry_ParsesBefore204(method, resp) ==
    IF ~IsSupported(method)
    THEN Raised("ValueError", UnsupportedText(method))
    ELSE IF resp.kind # "http"
    THEN Raised("requests.ConnectionError", TransportText)
    ELSE IF RequestsRaisesForStatus(resp.status)
    THEN Raised("requests.HTTPError", StatusText(resp.status))
    ELSE IF ~JsonLoads(resp.text).ok
    THEN Raised("requests.JSONDecodeError", DecodeText)
    ELSE IF resp.status = 204
    THEN Returned(PyNone)
    ELSE Returned(JsonLoads(resp.text).value)

\* the try block of _make_request
SyncTry(method, resp) ==
    IF ~IsSupported(method) THEN Raised("ValueError", UnsupportedText(method))
    ELSE IF resp.kind # "http" THEN Raised("requests.ConnectionError", TransportText)
    ELSE IF RequestsRaisesForStatus(resp.status)
         THEN Raised("requests.HTTPError", StatusText(resp.status))
    ELSE IF resp.status = 204 THEN Returned(PyNone)
    ELSE IF JsonLoads(resp.text).ok THEN Returned(JsonLoads(resp.text).value)
    ELSE Raised("requests.JSONDecodeError", DecodeText)

\* _make_request: the try block and its except clause, which logs the error
\* body and raises Exception(message)
SyncOutcome(method, resp) ==
    LET r == SyncTry(method, resp) IN
    IF r.mode = "raise" /\ r.exc.type \in RequestExceptions
    THEN Raised("Exception",
                <<"Error making request to Shortcut API: ">> \o r.exc.msg)
    ELSE r

\* a try block that hands the payload over inside an envelope
AsyncTry_WrapsPayload(method, resp) ==
    IF ~IsSupported(method) THEN Raised("ValueError", UnsupportedText(method))
    ELSE IF resp.kind # "http" THEN Raised("httpx.ConnectError", TransportText)
    ELSE IF HttpxRaisesForStatus(resp.status)
         THEN Raised("httpx.HTTPStatusError", StatusText(resp.status))
    ELSE IF resp.status = 204 THEN Returned(PyNone)
    ELSE IF JsonLoads(resp.text).ok
         THEN Returned(PyDict([ data |-> JsonLoads(resp.text).value ]))
    ELSE Raised("json.JSONDecodeError", DecodeText)

\* the try block of _make_request_async
AsyncTry(method, resp) ==
    IF ~IsSupported(method) THEN Raised("ValueError", UnsupportedText(method))
    ELSE IF resp.kind # "http" THEN Raised("httpx.ConnectError", TransportText)
    ELSE IF HttpxRaisesForStatus(resp.status)
         THEN Raised("httpx.HTTPStatusError", StatusText(resp.status))
    ELSE IF resp.status = 204 THEN Returned(PyNone)
    ELSE IF JsonLoads(resp.text).ok THEN Returned(JsonLoads(resp.text).value)
    ELSE Raised("json.JSONDecodeError", DecodeText)

\* except httpx.HTTPStatusError: the error body parsed, or its raw text
StatusErrorValue(msg, resp) ==
    IF JsonLoads(resp.text).ok
    THEN PyDict([ error   |-> PyStr(msg),
                  details |-> JsonLoads(resp.text).value ])
    ELSE PyDict([ error   |-> PyStr(msg),
                  details |-> PyDict([ raw_response |-> PyStr(<<resp.text>>) ]) ])

\* a catch-all clause that adds a details field to its descriptor
UnexpectedErrorValue_WithDetails(msg) ==
    PyDict([ error   |-> PyStr(<<"Unexpected error: ">> \o msg),
             details |-> PyDict([ raw_response |-> PyStr(<<"">>) ]) ])

\* except Exception
UnexpectedErrorValue(msg) ==
    PyDict([ error |-> PyStr(<<"Unexpected error: ">> \o msg) ])

\* _make_request_async without its `except Exception` clause
AsyncOutcome_NoCatchAll(method, resp) ==
    LET r == AsyncTry(method, resp) IN
    IF r.mode = "raise" /\ r.exc.type = "httpx.HTTPStatusError"
    THEN Returned(StatusErrorValue(r.exc.msg, resp))
    ELSE r

\* _make_request_async: the try block and its two except clauses
AsyncOutcome(method, resp) ==
    LET r == AsyncTry(method, resp) IN
    IF r.mode = "raise" /\ r.exc.type = "httpx.HTTPStatusError"
    THEN Returned(StatusErrorValue(r.exc.msg, resp))
    ELSE IF r.mode = "raise" /\ r.exc.type \in Exceptions
    THEN Returned(UnexpectedErrorValue(r.exc.msg))
    ELSE r

NormalizerOutcome(variant, method, resp) ==
    IF variant = "sync" THEN SyncOutcome(method, resp) ELSE AsyncOutcome(method, resp)

---------------------------------------------------------------------------
(* Client wrappers (shortcut_client.py) on the non-blocking normaliser.    *)

\* isinstance(result, dict) and "error" in result
IsErrorResult(v) == IsDict(v) /\ HasKey(v, "error")

\* if <error>: return []
\* return result or []
ListOrEmpty(v) ==
    IF IsErrorResult(v) THEN PyList(<<>>)
    ELSE IF Truthy(v) THEN v ELSE PyList(<<>>)

\* if <error>: return None
\* return result
ValueOrNone(v) == IF IsErrorResult(v) THEN PyNone ELSE v

\* get_stories_async
GetStoriesAsync(o) ==
    IF o.mode = "return" THEN Returned(ListOrEmpty(o.value)) ELSE o

\* get_stories: self._make_request(...) or [], with no try around it
GetStories(o) ==
    IF o.mode = "return"
    THEN Returned(IF Truthy(o.value) THEN o.value ELSE PyList(<<>>))
    ELSE o

\* list_epics: self._make_request(...) or []
ListEpics(o) ==
    IF o.mode = "return"
    THEN Returned(IF Truthy(o.value) THEN o.value ELSE PyList(<<>>))
    ELSE o

\* list_epics_async
ListEpicsAsync(o) ==
    IF o.mode = "return" THEN Returned(ListOrEmpty(o.value)) ELSE o

\* get_story_by_id_async
GetStoryByIdAsync(o) ==
    IF o.mode = "return" THEN Returned(ValueOrNone(o.value)) ELSE o

\* search_stories_async: [] for an error descriptor or a falsy result, else
\* results.get("data", []), which a list does not have
SearchStoriesAsync(o) ==
    IF o.mode # "return" THEN o
    ELSE IF IsErrorResult(o.value) \/ ~Truthy(o.value) THEN Returned(PyList(<<>>))
    ELSE IF IsDict(o.value) THEN Returned(DictGet(o.value, "data", PyList(<<>>)))
    ELSE Raised("AttributeError", <<"'list' object has no attribute 'get'">>)

\* create_epic_async
CreateEpicAsync(o) ==
    IF o.mode = "return" THEN Returned(ValueOrNone(o.value)) ELSE o

\* update_story_async
UpdateStoryAsync(o) ==
    IF o.mode = "return" THEN Returned(ValueOrNone(o.value)) ELSE o

\* update_epic_async
UpdateEpicAsync(o) ==
    IF o.mode = "return" THEN Returned(ValueOrNone(o.value)) ELSE o

\* delete_epic: True when _make_request returned, False when it raised
DeleteEpic(o) ==
    IF o.mode = "raise" /\ o.exc.type \in Exceptions
    THEN Returned(PyBool(FALSE))
    ELSE IF o.mode = "return" THEN Returned(PyBool(TRUE))
    ELSE o

\* delete_epic_async: not (isinstance(result, dict) and "error" in result)
DeleteEpicAsync(o) ==
    IF o.mode = "raise" /\ o.exc.type \in Exceptions
    THEN Returned(PyBool(FALSE))
    ELSE IF o.mode = "return" THEN Returned(PyBool(~IsErrorResult(o.value)))
    ELSE o

\* search_stories: results.get("data", []) if results else [], no try
SearchStories(o) ==
    IF o.mode # "return" THEN o
    ELSE IF ~Truthy(o.value) THEN Returned(PyList(<<>>))
    ELSE IF IsDict(o.value) THEN Returned(DictGet(o.value, "data", PyList(<<>>)))
    ELSE Raised("AttributeError", <<"'list' object has no attribute 'get'">>)

\* the synchronous list methods: return self._make_request(...) or []
ReturnsOrEmpty(o) ==
    IF o.mode = "return"
    THEN Returned(IF Truthy(o.value) THEN o.value ELSE PyList(<<>>))
    ELSE o

\* the synchronous single-object methods: try: return self._make_request(...)
\* except Exception: return None
TryOrNone(o) ==
    IF o.mode = "raise" /\ o.exc.type \in Exceptions THEN Returned(PyNone) ELSE o

\* the asynchronous list methods: [] for an error descriptor, else result or []
AsyncReturnsOrEmpty(o) ==
    IF o.mode = "return" THEN Returned(ListOrEmpty(o.value)) ELSE o

\* the asynchronous single-object methods: None for an error descriptor
AsyncValueOrNone(o) ==
    IF o.mode = "return" THEN Returned(ValueOrNone(o.value)) ELSE o

\* a method of the client: its one call of the normaliser and the pattern by
\* which it returns
Wrapper(name, variant, method, endpoint, params, data, returns) ==
    [ name |-> name, variant |-> variant, method |-> method, endpoint |-> endpoint,
      params |-> params, data |-> data, returns |-> returns ]

SearchParams == PyDict([ query |-> PyStr(<<"bug">>), page_size |-> PyInt(25) ])

StoryData == PyDict([ name |-> PyStr(<<"T">>) ])

CommentData == PyDict([ text |-> PyStr(<<"hello">>) ])

\* the synchronous methods that have no action of their own
SyncWrappers ==
    { Wrapper("ShortcutClient.search_stories", "sync", "GET",
              <<"search", Slash, "stories">>, SearchParams, PyNone, "data"),
      Wrapper("ShortcutClient.get_story_by_id", "sync", "GET",
              <<"stories", Slash, "1">>, PyNone, PyNone, "object"),
      Wrapper("ShortcutClient.get_members", "sync", "GET",
              <<"members">>, PyNone, PyNone, "list"),
      Wrapper("ShortcutClient.create_story", "sync", "POST",
              <<"stories">>, PyNone, StoryData, "object"),
      Wrapper("ShortcutClient.update_story", "sync", "PUT",
              <<"stories", Slash, "1">>, PyNone, StoryData, "object"),
      Wrapper("ShortcutClient.add_comment", "sync", "POST",
              <<"stories", Slash, "1", Slash, "comments">>, PyNone, CommentData, "object"),
      Wrapper("ShortcutClient.get_workflow_states", "sync", "GET",
              <<"workflows">>, PyNone, PyNone, "list"),
      Wrapper("ShortcutClient.get_projects", "sync", "GET",
              <<"projects">>, PyNone, PyNone, "list"),
      Wrapper("ShortcutClient.get_groups", "sync", "GET",
              <<"groups">>, PyNone, PyNone, "list"),
      Wrapper("ShortcutClient.create_epic", "sync", "POST",
              <<"epics">>, PyNone, StoryData, "object"),
      Wrapper("ShortcutClient.get_epic", "sync", "GET",
              <<"epics", Slash, "99">>, PyNone, PyNone, "object"),
      Wrapper("ShortcutClient.update_epic", "sync", "PUT",
              <<"epics", Slash, "99">>, PyNone, StoryData, "object") }

\* the asynchronous methods that have no action of their own
AsyncWrappers ==
    { Wrapper("ShortcutClient.search_stories_async", "async", "GET",
              <<"search", Slash, "stories">>, SearchParams, PyNone, "data"),
      Wrapper("ShortcutClient.get_story_by_id_async", "async", "GET",
              <<"stories", Slash, "1">>, PyNone, PyNone, "object"),
      Wrapper("ShortcutClient.create_story_async", "async", "POST",
              <<"stories">>, PyNone, StoryData, "object"),
      Wrapper("ShortcutClient.update_story_async", "async", "PUT",
              <<"stories", Slash, "1">>, PyNone, StoryData, "object"),
      Wrapper("ShortcutClient.add_comment_async", "async", "POST",
              <<"stories", Slash, "1", Slash, "comments">>, PyNone, CommentData, "object"),
      Wrapper("ShortcutClient.get_workflow_states_async", "async", "GET",
              <<"workflows">>, PyNone, PyNone, "list"),
      Wrapper("ShortcutClient.get_projects_async", "async", "GET",
              <<"projects">>, PyNone, PyNone, "list"),
      Wrapper("ShortcutClient.get_groups_async", "async", "GET",
              <<"groups">>, PyNone, PyNone, "list"),
      Wrapper("ShortcutClient.create_epic_async", "async", "POST",
              <<"epics">>, PyNone, StoryData, "object"),
      Wrapper("ShortcutClient.get_epic_async", "async", "GET",
              <<"epics", Slash, "99">>, PyNone, PyNone, "object"),
      Wrapper("ShortcutClient.update_epic_async", "async", "PUT",
              <<"epics", Slash, "99">>, PyNone, StoryData, "object") }

Wrappers == SyncWrappers \cup AsyncWrappers

\* what the method makes of the normaliser's result
WrapperReturn(w, o) ==
    CASE w.variant = "sync"  /\ w.returns = "list"   -> ReturnsOrEmpty(o)
      [] w.variant = "sync"  /\ w.returns = "object" -> TryOrNone(o)
      [] w.variant = "sync"  /\ w.returns = "data"   -> SearchStories(o)
      [] w.variant = "async" /\ w.returns = "list"   -> AsyncReturnsOrEmpty(o)
      [] w.variant = "async" /\ w.returns = "object" -> AsyncValueOrNone(o)
      [] w.variant = "async" /\ w.returns = "data"   -> SearchStoriesAsync(o)

---------------------------------------------------------------------------
(* Pydantic models of utils.py: validation and model_dump.                 *)

HasTyped(v, k, tag) == HasKey(v, k) /\ v[2][k][1] = tag

\* an Optional field is absent, None or of its type
OptTyped(v, k, tag) == ~HasKey(v, k) \/ v[2][k][1] \in {"none", tag}

\* StoryType = Literal["feature", "bug", "chore"]
StoryType == {"feature", "bug", "chore"}

\* story_type is absent, None or one of the literals
OptStoryType(v) ==
    \/ ~HasKey(v, "story_type")
    \/ v[2]["story_type"][1] = "none"
    \/ /\ v[2]["story_type"][1] = "str"
       /\ \E t \in StoryType : v[2]["story_type"][2] = <<t>>

SummaryOptStr == {"story_type", "workflow_state_name", "created_at", "updated_at"}

SummaryOptInt == {"workflow_state_id", "estimate"}

\* StorySummary.model_validate(story) succeeds
ValidSummary(story) ==
    /\ IsDict(story)
    /\ HasTyped(story, "id", "int")
    /\ HasTyped(story, "name", "str")
    /\ OptStoryType(story)
    /\ \A k \in SummaryOptStr : OptTyped(story, k, "str")
    /\ \A k \in SummaryOptInt : OptTyped(story, k, "int")

\* StorySummary.model_validate(story).model_dump()
SummaryDump(story) ==
    PyDict([ k \in {"id", "name"} \cup SummaryOptStr \cup SummaryOptInt |->
                DictGet(story, k, PyNone) ])

DetailOptStr ==
    {"description", "story_type", "workflow_state_name", "created_at",
     "updated_at", "deadline"}

DetailOptInt == {"workflow_state_id", "estimate", "project_id"}

DetailLists == {"owner_ids", "label_ids", "comments", "external_links"}

\* StoryDetail.model_validate(story) succeeds
ValidDetail(story) ==
    /\ IsDict(story)
    /\ HasTyped(story, "id", "int")
    /\ HasTyped(story, "name", "str")
    /\ OptStoryType(story)
    /\ \A k \in DetailOptStr : OptTyped(story, k, "str")
    /\ \A k \in DetailOptInt : OptTyped(story, k, "int")
    /\ \A k \in DetailLists : ~HasKey(story, k) \/ story[2][k][1] = "list"

\* StoryDetail.model_validate(story).model_dump()
DetailDump(story) ==
    PyDict([ k \in {"id", "name"} \cup DetailOptStr \cup DetailOptInt \cup DetailLists |->
                IF k \in DetailLists
                THEN DictGet(story, k, PyList(<<>>))
                ELSE DictGet(story, k, PyNone) ])

---------------------------------------------------------------------------
(* Tool handlers (server.py).                                              *)

\* json.dumps({"error": message})
ErrorJson(msg) == PyDict([ error |-> PyStr(msg) ])

\* the filters list_stories passes on: `if workflow_state_id:` ...
ListStoriesParams(args) ==
    LET given == [ workflow_state_id |-> args.workflow_state_id,
                   project_id        |-> args.project_id,
                   owner_id          |-> args.owner_id ]
        name(k) == IF k = "owner_id" THEN "owner_ids[]" ELSE k
        keys == { k \in DOMAIN given : Truthy(given[k]) }
    IN  PyDict([ n \in { name(k) : k \in keys } |->
                    IF n = "owner_ids[]" THEN given["owner_id"] ELSE given[n] ])

\* stories[:limit] of a list
Prefix(s, limit) == SubSeq(s, 1, IF limit < Len(s) THEN limit ELSE Len(s))

\* every element a `for story in stories` visits validates: a list yields
\* its elements, a dict its keys
AllValidSummaries(v) ==
    IF IsList(v) THEN \A i \in DOMAIN v[2] : ValidSummary(v[2][i])
    ELSE \A k \in DOMAIN v[2] : ValidSummary(PyStr(<<k>>))

\* list_stories after get_stories_async returned: the slice, then the
\* formatting inside try/except
ListStoriesRender(args, w) ==
    IF w.mode # "return" THEN w
    ELSE IF args.limit > 0 /\ ~IsList(w.value)
    THEN Raised("TypeError", <<"unhashable type: 'slice'">>)
    ELSE LET stories == IF args.limit > 0
                        THEN PyList(Prefix(w.value[2], args.limit))
                        ELSE w.value
         IN  IF AllValidSummaries(stories)
             THEN Returned(PyList([ i \in DOMAIN stories[2] |->
                                       SummaryDump(stories[2][i]) ]))
             ELSE Returned(ErrorJson(<<"Error formatting stories: ",
                                       "validation error">>))

\* the parameters search_stories_async sends
SearchStoriesParams(args) ==
    PyDict([ query |-> PyStr(<<args.query>>), page_size |-> PyInt(args.limit) ])

\* search_stories after search_stories_async returned; the await is outside
\* the try block
SearchStoriesRender(args, w) ==
    IF w.mode # "return" THEN w
    ELSE IF ~(IsList(w.value) \/ IsDict(w.value))
    THEN Returned(ErrorJson(<<"Error formatting search results: ",
                              "object is not iterable">>))
    ELSE IF AllValidSummaries(w.value)
    THEN IF IsList(w.value)
         THEN Returned(PyList([ i \in DOMAIN w.value[2] |-> SummaryDump(w.value[2][i]) ]))
         ELSE Returned(PyList(<<>>))
    ELSE Returned(ErrorJson(<<"Error formatting search results: ",
                              "validation error">>))

\* epic_data of create_epic: the name, the description unless None, the
\* owner ids if truthy
CreateEpicData(args) ==
    LET given == [ name        |-> PyStr(<<args.name>>),
                   description |-> args.description,
                   owner_ids   |-> args.owner_ids ]
        keys == {"name"} \cup { k \in {"description"} : ~IsNone(given[k]) }
                         \cup { k \in {"owner_ids"} : Truthy(given[k]) }
    IN  PyDict([ k \in keys |-> given[k] ])

UnknownError == PyStr(<<"Unknown error from client">>)

\* create_epic after create_epic_async returned; the await is inside the try
\* block, and created_epic.get('id') is evaluated for the log
CreateEpicRender(args, w) ==
    IF w.mode # "return"
    THEN Returned(ErrorJson(<<"Error creating epic: ">> \o w.exc.msg))
    ELSE IF \/ ~Truthy(w.value)
            \/ HasKey(w.value, "error") /\ Truthy(DictGet(w.value, "details", PyNone))
    THEN Returned(PyDict([ error   |-> PyStr(<<"Failed to create epic">>),
                           details |-> IF IsDict(w.value)
                                       THEN DictGet(w.value, "details", UnknownError)
                                       ELSE UnknownError ]))
    ELSE IF ~IsDict(w.value)
    THEN Returned(ErrorJson(<<"Error creating epic: ",
                              "'list' object has no attribute 'get'">>))
    ELSE Returned(w.value)

\* a handler that takes only the truthy arguments into its update
UpdateStoryData_TruthyOnly(args) ==
    PyDict([ k \in { f \in {"name", "description", "story_type", "workflow_state_id",
                             "owner_ids", "epic_id", "story_links"} : Truthy(args[f]) }
               |-> args[k] ])

\* update_data of update_story: every argument that is not None, the story
\* type if truthy
UpdateStoryData(args) ==
    LET keys == { k \in {"name", "description", "workflow_state_id", "owner_ids",
                         "epic_id", "story_links"} : ~IsNone(args[k]) }
                \cup { k \in {"story_type"} : Truthy(args[k]) }
    IN  PyDict([ k \in keys |-> args[k] ])

\* update_data of update_epic: every argument that is not None
UpdateEpicData(args) ==
    PyDict([ k \in { f \in {"name", "description", "owner_ids"} : ~IsNone(args[f]) }
               |-> args[k] ])

\* update_story after update_story_async returned; the await is outside the
\* try block
UpdateStoryRender(args, w) ==
    IF w.mode # "return" THEN w
    ELSE IF ~Truthy(w.value)
    THEN Returned(ErrorJson(<<"Failed to update story ", ToString(args.story_id)>>))
    ELSE IF ValidDetail(w.value)
    THEN Returned(DetailDump(w.value))
    ELSE Returned(ErrorJson(<<"Error formatting updated story: ", "validation error">>))

\* update_epic after update_epic_async returned; the await is inside the try
\* block
UpdateEpicRender(args, w) ==
    IF w.mode # "return"
    THEN Returned(ErrorJson(<<"Error updating epic: ">> \o w.exc.msg))
    ELSE IF \/ ~Truthy(w.value)
            \/ HasKey(w.value, "error") /\ Truthy(DictGet(w.value, "details", PyNone))
    THEN Returned(PyDict([ error   |-> PyStr(<<"Failed to update epic ",
                                               ToString(args.epic_id)>>),
                           details |-> IF IsDict(w.value)
                                       THEN DictGet(w.value, "details", UnknownError)
                                       ELSE UnknownError ]))
    ELSE Returned(w.value)

\* delete_epic (the tool) after delete_epic_async returned; the await is
\* inside the try block
DeleteEpicRender(args, w) ==
    IF w.mode # "return"
    THEN Returned(ErrorJson(<<"Error deleting epic: ">> \o w.exc.msg))
    ELSE IF Truthy(w.value)
    THEN Returned(PyDict([ success |-> PyBool(TRUE),
                           message |-> PyStr(<<"Epic ", ToString(args.epic_id),
                                               " deleted successfully.">>) ]))
    ELSE Returned(ErrorJson(<<"Failed to delete epic ", ToString(args.epic_id),
                              ". Client indicated failure or epic not found.">>))

\* get_story_details after get_story_by_id_async returned
GetStoryDetailsRender(args, w) ==
    IF w.mode # "return" THEN w
    ELSE IF ~Truthy(w.value)
    THEN Returned(ErrorJson(<<"Story with ID ", ToString(args.story_id), " not found">>))
    ELSE IF ValidDetail(w.value)
    THEN Returned(DetailDump(w.value))
    ELSE Returned(ErrorJson(<<"Error formatting story: ", "validation error">>))

---------------------------------------------------------------------------
(* What the layers above the normaliser make of its result.                *)

NormalizerEntry == [ layer |-> "normalizer", name |-> "", args |-> <<>> ]

ToolEntry(name, args) == [ layer |-> "tool", name |-> name, args |-> args ]

\* a resource handler of the server
ResourceEntry(name, args) == [ layer |-> "resource", name |-> name, args |-> args ]

\* a method of the client called directly, named ShortcutClient.<method>
WrapperEntry(name, args) == [ layer |-> "wrapper", name |-> name, args |-> args ]

WrapperResult(ent, o) ==
    CASE ent.name = "list_stories"      -> GetStoriesAsync(o)
      [] ent.name = "get_stories_resource" -> GetStoriesAsync(o)
      [] ent.name = "get_story_details" -> GetStoryByIdAsync(o)
      [] ent.name = "search_stories"    -> SearchStoriesAsync(o)
      [] ent.name = "create_epic"       -> CreateEpicAsync(o)
      [] ent.name = "update_story"      -> UpdateStoryAsync(o)
      [] ent.name = "update_epic"       -> UpdateEpicAsync(o)
      [] ent.name = "delete_epic"       -> DeleteEpicAsync(o)
      [] ent.name = "ShortcutClient.get_stories"       -> GetStories(o)
      [] ent.name = "ShortcutClient.get_stories_async" -> GetStoriesAsync(o)
      [] ent.name = "ShortcutClient.list_epics"        -> ListEpics(o)
      [] ent.name = "ShortcutClient.list_epics_async"  -> ListEpicsAsync(o)
      [] ent.name = "ShortcutClient.delete_epic"       -> DeleteEpic(o)
      [] ent.name = "ShortcutClient.delete_epic_async" -> DeleteEpicAsync(o)
      [] \E w \in Wrappers : w.name = ent.name ->
            WrapperReturn(CHOOSE w \in Wrappers : w.name = ent.name, o)
      [] OTHER -> NoOutcome

ToolResult(ent, w) ==
    CASE ent.name = "list_stories"      -> ListStoriesRender(ent.args, w)
      [] ent.name = "get_stories_resource" -> ListStoriesRender(ent.args, w)
      [] ent.name = "get_story_details" -> GetStoryDetailsRender(ent.args, w)
      [] ent.name = "search_stories"    -> SearchStoriesRender(ent.args, w)
      [] ent.name = "create_epic"       -> CreateEpicRender(ent.args, w)
      [] ent.name = "update_story"      -> UpdateStoryRender(ent.args, w)
      [] ent.name = "update_epic"       -> UpdateEpicRender(ent.args, w)
      [] ent.name = "delete_epic"       -> DeleteEpicRender(ent.args, w)
      [] OTHER -> NoOutcome

---------------------------------------------------------------------------
(* Inputs.                                                                 *)

\* endpoints handed to the normaliser directly
Endpoints ==
    { Slashes(n) \o <<"stories">> \o Slashes(m) : n \in 0..MaxSlashes, m \in 0..1 }

ParamValues == { PyNone, PyDict([ workflow_state_id |-> PyInt(5) ]) }

DataValues == { PyNone, EmptyDict, PyDict([ name |-> PyStr(<<"T">>) ]) }

\* arguments of the tools
IdArgs == { PyNone, PyInt(0), PyInt(5) }

OwnerArgs == { PyNone, PyStr(<<"u1">>) }

LimitArgs == {-1, 0, 1, 2, 25}

ResourceLimits == {0, 1, 20}

StoryIds == {1, 404}

Queries == {"", "bug"}

PageSizes == {1, 25}

EpicNames == {"E"}

EpicIds == {99}

\* arguments of update_story and update_epic: None, or a value that may be falsy
NewNames == { PyNone, PyStr(<<"">>) }

NewStoryTypes == { PyNone, PyStr(<<"bug">>) }

NewStateIds == { PyNone, PyInt(0) }

NewOwnerIds == { PyNone, PyList(<<>>) }

NewEpicIds == { PyNone, PyInt(7) }

NewStoryLinks == { PyNone, PyList(<<>>) }

Descriptions == { PyNone, PyStr(<<"D">>) }

OwnerIdLists == { PyNone, PyList(<<>>), PyList(<<PyStr(<<"u1">>)>>) }

\* base URLs a configuration can hold
BaseUrls == { SHORTCUT_API_BASE_URL, SHORTCUT_API_BASE_URL \o <<Slash>> }

---------------------------------------------------------------------------
(* The state machine.                                                      *)

NoCall ==
    [ variant |-> "", method |-> "", endpoint |-> <<>>,
      params |-> PyNone, data |-> PyNone ]

Tasks == 1..NumTasks

\* the frame of an invocation: its arguments, the request it issued, what the
\* network sent on its connection, its `response` local and its result
IdleTask ==
    [ pc |-> "idle", call |-> NoCall, request |-> NoRequest, answer |-> NoResponse,
      response |-> NoResponse, outcome |-> NoOutcome ]

Cleared ==
    /\ pc = "idle"
    /\ call = NoCall
    /\ entry = NormalizerEntry
    /\ request = NoRequest
    /\ netCalls = 0
    /\ response = NoResponse
    /\ outcome = NoOutcome
    /\ wrapperOut = NoOutcome
    /\ toolOut = NoOutcome
    /\ tasks = [ t \in Tasks |-> IdleTask ]

\* server.py: shortcut_client = ShortcutClient(), from config.py
Init == client = NewClient(SHORTCUT_API_BASE_URL) /\ Cleared

\* a client constructed under any configured base URL
InitCfg == (\E base \in BaseUrls : client = NewClient(base)) /\ Cleared

\* The normaliser up to its network call.  An unsupported method raises
\* inside the try block before any call is made, and the invocation is over.
Invoke(ent, variant, method, endpoint, params, data) ==
    /\ entry' = ent
    /\ call' = [ variant |-> variant, method |-> method, endpoint |-> endpoint,
                 params |-> params, data |-> data ]
    /\ response' = NoResponse
    /\ IF IsSupported(method)
       THEN /\ request' = BuildRequest(variant, client, method, endpoint, params, data)
            /\ netCalls' = netCalls + 1
            /\ pc' = "awaiting"
            /\ outcome' = NoOutcome
            /\ wrapperOut' = NoOutcome
            /\ toolOut' = NoOutcome
       ELSE /\ request' = NoRequest
            /\ netCalls' = netCalls
            /\ pc' = "done"
            /\ outcome' = NormalizerOutcome(variant, method, NoResponse)
            /\ wrapperOut' = WrapperResult(ent, outcome')
            /\ toolOut' = ToolResult(ent, wrapperOut')
    /\ UNCHANGED <<client, tasks>>

\* ShortcutClient._make_request(method, endpoint, params, data)
make_request(method, endpoint, params, data) ==
    /\ pc = "idle"
    /\ Invoke(NormalizerEntry, "sync", method, endpoint, params, data)

\* ShortcutClient._make_request_async(method, endpoint, params, data)
make_request_async(method, endpoint, params, data) ==
    /\ pc = "idle"
    /\ Invoke(NormalizerEntry, "async", method, endpoint, params, data)

\* server.list_stories(workflow_state_id, project_id, owner_id, limit)
list_stories(workflow_state_id, project_id, owner_id, limit) ==
    LET args == [ workflow_state_id |-> workflow_state_id, project_id |-> project_id,
                  owner_id |-> owner_id, limit |-> limit ]
    IN  /\ pc = "idle"
        /\ Invoke(ToolEntry("list_stories", args), "async", "GET", <<"stories">>,
                  ListStoriesParams(args), PyNone)

\* server.get_stories_resource(workflow_state_id, project_id, limit): the
\* same handler without the owner filter
get_stories_resource(workflow_state_id, project_id, limit) ==
    LET args == [ workflow_state_id |-> workflow_state_id, project_id |-> project_id,
                  owner_id |-> PyNone, limit |-> limit ]
    IN  /\ pc = "idle"
        /\ Invoke(ResourceEntry("get_stories_resource", args), "async", "GET",
                  <<"stories">>, ListStoriesParams(args), PyNone)

\* server.get_story_details(story_id)
get_story_details(story_id) ==
    /\ pc = "idle"
    /\ Invoke(ToolEntry("get_story_details", [ story_id |-> story_id ]), "async", "GET",
              <<"stories", Slash, ToString(story_id)>>, PyNone, PyNone)

\* a handler that searches whatever the query
search_stories_AnyQuery(query, limit) ==
    LET args == [ query |-> query, limit |-> limit ]
    IN  /\ pc = "idle"
        /\ Invoke(ToolEntry("search_stories", args), "async", "GET",
                  <<"search", Slash, "stories">>, SearchStoriesParams(args), PyNone)

\* server.search_stories(query, limit): an empty query is answered at once
search_stories(query, limit) ==
    LET args == [ query |-> query, limit |-> limit ]
    IN  /\ pc = "idle"
        /\ IF query = ""
           THEN /\ entry' = ToolEntry("search_stories", args)
                /\ toolOut' = Returned(ErrorJson(<<"Search query is required">>))
                /\ pc' = "done"
                /\ UNCHANGED <<client, call, request, netCalls, response, outcome,
                               wrapperOut, tasks>>
           ELSE Invoke(ToolEntry("search_stories", args), "async", "GET",
                       <<"search", Slash, "stories">>, SearchStoriesParams(args), PyNone)

\* server.create_epic(name, description, owner_ids)
create_epic(name, description, owner_ids) ==
    LET args == [ name |-> name, description |-> description, owner_ids |-> owner_ids ]
    IN  /\ pc = "idle"
        /\ Invoke(ToolEntry("create_epic", args), "async", "POST", <<"epics">>,
                  PyNone, CreateEpicData(args))

\* server.update_story(story_id, name, ..., story_links): without update data
\* it answers at once
update_story(story_id, name, description, story_type, workflow_state_id, owner_ids, epic_id, story_links) ==
    LET args == [ story_id |-> story_id, name |-> name, description |-> description,
                  story_type |-> story_type, workflow_state_id |-> workflow_state_id,
                  owner_ids |-> owner_ids, epic_id |-> epic_id,
                  story_links |-> story_links ]
    IN  /\ pc = "idle"
        /\ IF ~Truthy(UpdateStoryData(args))
           THEN /\ entry' = ToolEntry("update_story", args)
                /\ toolOut' = Returned(ErrorJson(
                                  <<"No update parameters provided for the story.">>))
                /\ pc' = "done"
                /\ UNCHANGED <<client, call, request, netCalls, response, outcome,
                               wrapperOut, tasks>>
           ELSE Invoke(ToolEntry("update_story", args), "async", "PUT",
                       <<"stories", Slash, ToString(story_id)>>, PyNone,
                       UpdateStoryData(args))

\* server.update_epic(epic_id, name, description, owner_ids)
update_epic(epic_id, name, description, owner_ids) ==
    LET args == [ epic_id |-> epic_id, name |-> name, description |-> description,
                  owner_ids |-> owner_ids ]
    IN  /\ pc = "idle"
        /\ IF ~Truthy(UpdateEpicData(args))
           THEN /\ entry' = ToolEntry("update_epic", args)
                /\ toolOut' = Returned(ErrorJson(<<"No update data provided for epic.">>))
                /\ pc' = "done"
                /\ UNCHANGED <<client, call, request, netCalls, response, outcome,
                               wrapperOut, tasks>>
           ELSE Invoke(ToolEntry("update_epic", args), "async", "PUT",
                       <<"epics", Slash, ToString(epic_id)>>, PyNone,
                       UpdateEpicData(args))

\* server.delete_epic(epic_id)
delete_epic(epic_id) ==
    /\ pc = "idle"
    /\ Invoke(ToolEntry("delete_epic", [ epic_id |-> epic_id ]), "async", "DELETE",
              <<"epics", Slash, ToString(epic_id)>>, PyNone, PyNone)

\* a method of the client that passes on a method string of its caller's
client_call_AnyMethod(w) ==
    /\ pc = "idle"
    /\ \E m \in Methods :
          Invoke(WrapperEntry(w.name, [ params |-> w.params, data |-> w.data ]),
                 w.variant, m, w.endpoint, w.params, w.data)

\* a method of the client that has no action of its own
client_call(w) ==
    /\ pc = "idle"
    /\ Invoke(WrapperEntry(w.name, [ params |-> w.params, data |-> w.data ]),
              w.variant, w.method, w.endpoint, w.params, w.data)

\* ShortcutClient.get_stories(params)
client_get_stories(params) ==
    /\ pc = "idle"
    /\ Invoke(WrapperEntry("ShortcutClient.get_stories", [ params |-> params ]),
              "sync", "GET", <<"stories">>, params, PyNone)

\* ShortcutClient.get_stories_async(params)
client_get_stories_async(params) ==
    /\ pc = "idle"
    /\ Invoke(WrapperEntry("ShortcutClient.get_stories_async", [ params |-> params ]),
              "async", "GET", <<"stories">>, params, PyNone)

\* ShortcutClient.list_epics(params)
client_list_epics(params) ==
    /\ pc = "idle"
    /\ Invoke(WrapperEntry("ShortcutClient.list_epics", [ params |-> params ]),
              "sync", "GET", <<"epics">>, params, PyNone)

\* ShortcutClient.list_epics_async(params)
client_list_epics_async(params) ==
    /\ pc = "idle"
    /\ Invoke(WrapperEntry("ShortcutClient.list_epics_async", [ params |-> params ]),
              "async", "GET", <<"epics">>, params, PyNone)

\* ShortcutClient.delete_epic(epic_id)
client_delete_epic(epic_id) ==
    /\ pc = "idle"
    /\ Invoke(WrapperEntry("ShortcutClient.delete_epic", [ epic_id |-> epic_id ]),
              "sync", "DELETE", <<"epics", Slash, ToString(epic_id)>>, PyNone, PyNone)

\* ShortcutClient.delete_epic_async(epic_id)
client_delete_epic_async(epic_id) ==
    /\ pc = "idle"
    /\ Invoke(WrapperEntry("ShortcutClient.delete_epic_async", [ epic_id |-> epic_id ]),
              "async", "DELETE", <<"epics", Slash, ToString(epic_id)>>, PyNone, PyNone)

\* a normaliser that sends the request once more after a connection error
Receive_RetriesOnce(resp) ==
    /\ pc = "awaiting"
    /\ IF resp.kind = "error" /\ netCalls < 2
       THEN /\ netCalls' = netCalls + 1
            /\ UNCHANGED <<client, pc, call, entry, request, response, outcome,
                           wrapperOut, toolOut, tasks>>
       ELSE /\ response' = resp
            /\ outcome' = NormalizerOutcome(call.variant, call.method, resp)
            /\ wrapperOut' = WrapperResult(entry, outcome')
            /\ toolOut' = ToolResult(entry, wrapperOut')
            /\ pc' = "done"
            /\ UNCHANGED <<client, call, entry, request, netCalls, tasks>>

\* The network answers, or fails to; the normaliser maps the answer and the
\* layers above it map the normaliser's result.
Receive(resp) ==
    /\ pc = "awaiting"
    /\ response' = resp
    /\ outcome' = NormalizerOutcome(call.variant, call.method, resp)
    /\ wrapperOut' = WrapperResult(entry, outcome')
    /\ toolOut' = ToolResult(entry, wrapperOut')
    /\ pc' = "done"
    /\ UNCHANGED <<client, call, entry, request, netCalls, tasks>>

\* a normaliser that drops the token from the client once a call is over
Finish_ForgetsToken ==
    /\ pc = "done"
    /\ pc' = "idle"
    /\ call' = NoCall
    /\ entry' = NormalizerEntry
    /\ request' = NoRequest
    /\ netCalls' = 0
    /\ response' = NoResponse
    /\ outcome' = NoOutcome
    /\ wrapperOut' = NoOutcome
    /\ toolOut' = NoOutcome
    /\ client' = [ client EXCEPT !.api_token = "", !.headers.ShortcutToken = "" ]
    /\ UNCHANGED tasks

\* The caller has its result; the next invocation starts from nothing.
Finish ==
    /\ pc = "done"
    /\ pc' = "idle"
    /\ call' = NoCall
    /\ entry' = NormalizerEntry
    /\ request' = NoRequest
    /\ netCalls' = 0
    /\ response' = NoResponse
    /\ outcome' = NoOutcome
    /\ wrapperOut' = NoOutcome
    /\ toolOut' = NoOutcome
    /\ UNCHANGED <<client, tasks>>

Next ==
    \/ \E m \in Methods, e \in Endpoints, p \in ParamValues, d \in DataValues :
          make_request(m, e, p, d)
    \/ \E m \in Methods, e \in Endpoints, p \in ParamValues, d \in DataValues :
          make_request_async(m, e, p, d)
    \/ \E w \in IdArgs, pr \in IdArgs, o \in OwnerArgs, l \in LimitArgs :
          list_stories(w, pr, o, l)
    \/ \E w \in IdArgs, pr \in IdArgs, l \in ResourceLimits :
          get_stories_resource(w, pr, l)
    \/ \E id \in StoryIds : get_story_details(id)
    \/ \E q \in Queries, l \in PageSizes : search_stories(q, l)
    \/ \E n \in EpicNames, d \in Descriptions, o \in OwnerIdLists : create_epic(n, d, o)
    \/ \E id \in StoryIds, n \in NewNames, d \in Descriptions, t \in NewStoryTypes,
          w \in NewStateIds, o \in NewOwnerIds, e \in NewEpicIds, l \in NewStoryLinks :
          update_story(id, n, d, t, w, o, e, l)
    \/ \E id \in EpicIds, n \in NewNames, d \in Descriptions, o \in NewOwnerIds :
          update_epic(id, n, d, o)
    \/ \E id \in EpicIds : delete_epic(id)
    \/ \E w \in Wrappers : client_call(w)
    \/ \E p \in ParamValues : client_get_stories(p)
    \/ \E p \in ParamValues : client_get_stories_async(p)
    \/ \E p \in ParamValues : client_list_epics(p)
    \/ \E p \in ParamValues : client_list_epics_async(p)
    \/ \E id \in EpicIds : client_delete_epic(id)
    \/ \E id \in EpicIds : client_delete_epic_async(id)
    \/ \E r \in Responses : Receive(r)
    \/ Finish

Spec == Init /\ [][Next]_vars

SpecCfg == InitCfg /\ [][Next]_vars

---------------------------------------------------------------------------
(* Invocations that run concurrently on the shared client: coroutines of   *)
(* one event loop that interleave at their awaits, or threads.  Each has   *)
(* its own frame (url, response) and its own connection: the non-blocking  *)
(* variant opens an httpx.AsyncClient per call, the blocking one calls the *)
(* module-level functions of requests, a session per call.                 *)

Op(variant, method, endpoint, params, data) ==
    [ variant |-> variant, method |-> method, endpoint |-> endpoint,
      params |-> params, data |-> data ]

\* the operations issued concurrently
ConcOps ==
    { Op("async", "GET", <<"stories">>, PyDict([ workflow_state_id |-> PyInt(5) ]), PyNone),
      Op("async", "POST", <<"stories">>, PyNone, PyDict([ name |-> PyStr(<<"T">>) ])),
      Op("async", "PATCH", <<"stories">>, PyNone, PyNone),
      Op("sync", "GET", <<"stories", Slash, "404">>, PyNone, PyNone),
      Op("sync", "DELETE", <<"epics", Slash, "99">>, PyNone, PyNone) }

\* the answers they get
ConcResponses ==
    { TransportFailure,
      HttpResponse(200, "[{\"id\":1,\"name\":\"A\"}]"),
      HttpResponse(204, ""),
      HttpResponse(404, "{\"message\":\"not found\"}") }

\* the variables of the single invocation
invocation ==
    <<pc, call, entry, request, netCalls, response, outcome, wrapperOut, toolOut>>

\* a client that keeps the last response in one place every frame reads
Deliver_SharedSlot(ts, t, resp) ==
    [ u \in DOMAIN ts |->
        IF u = t
        THEN [ ts[u] EXCEPT !.answer = resp, !.response = resp, !.pc = "answered" ]
        ELSE [ ts[u] EXCEPT !.response = resp ] ]

\* response = await client.get(...) / requests.get(...): the answer on the
\* connection of invocation t becomes the `response` local of its frame
Deliver(ts, t, resp) ==
    [ ts EXCEPT ![t] = [ @ EXCEPT !.answer = resp, !.response = resp,
                                  !.pc = "answered" ] ]

\* invocation t enters the normaliser and issues its request
TaskStart(t, op) ==
    /\ tasks[t].pc = "idle"
    /\ tasks' = [ tasks EXCEPT ![t] =
          IF IsSupported(op.method)
          THEN [ pc |-> "awaiting", call |-> op,
                 request |-> BuildRequest(op.variant, client, op.method, op.endpoint,
                                          op.params, op.data),
                 answer |-> NoResponse, response |-> NoResponse,
                 outcome |-> NoOutcome ]
          ELSE [ pc |-> "done", call |-> op, request |-> NoRequest,
                 answer |-> NoResponse, response |-> NoResponse,
                 outcome |-> NormalizerOutcome(op.variant, op.method, NoResponse) ] ]
    /\ UNCHANGED <<client, invocation>>

\* the network answers invocation t, or fails to
TaskAnswer(t, resp) ==
    /\ tasks[t].pc = "awaiting"
    /\ tasks' = Deliver(tasks, t, resp)
    /\ UNCHANGED <<client, invocation>>

\* invocation t is scheduled again and maps the response in its frame
TaskResume(t) ==
    /\ tasks[t].pc = "answered"
    /\ tasks' = [ tasks EXCEPT ![t] =
          [ @ EXCEPT !.pc = "done",
                     !.outcome = NormalizerOutcome(tasks[t].call.variant,
                                                   tasks[t].call.method,
                                                   tasks[t].response) ] ]
    /\ UNCHANGED <<client, invocation>>

\* the caller of invocation t has its result
TaskFinish(t) ==
    /\ tasks[t].pc = "done"
    /\ tasks' = [ tasks EXCEPT ![t] = IdleTask ]
    /\ UNCHANGED <<client, invocation>>

NextConc ==
    \/ \E t \in Tasks, op \in ConcOps : TaskStart(t, op)
    \/ \E t \in Tasks, r \in ConcResponses : TaskAnswer(t, r)
    \/ \E t \in Tasks : TaskResume(t)
    \/ \E t \in Tasks : TaskFinish(t)

SpecConc == Init /\ [][NextConc]_vars

---------------------------------------------------------------------------
(* The vocabulary of the claims: the Outcome a result stands for.          *)

Absent == <<"absent", <<>> >>

Is2xx(status) == 200 <= status /\ status < 300

\* str.rstrip('/')
RECURSIVE RStrip(_)
RStrip(s) ==
    IF s = <<>> THEN s
    ELSE IF s[Len(s)] = Slash THEN RStrip(SubSeq(s, 1, Len(s) - 1)) ELSE s

\* the invocation was given a method outside GET, POST, PUT, DELETE
Unsupported == call # NoCall /\ Upper(call.method) \notin Supported

\* the normaliser was invoked with one of GET, POST, PUT, DELETE
SupportedCall == call # NoCall /\ Upper(call.method) \in Supported

\* the remote call failed: no response, a non-2xx response, or a 2xx
\* response (other than 204) whose body is not JSON
RequestFailed ==
    \/ response.kind = "error"
    \/ /\ response.kind = "http"
       /\ \/ ~Is2xx(response.status)
          \/ response.status # 204 /\ ~JsonLoads(response.text).ok

\* a Failure: an exception raised to the caller, or a returned value the
\* callers take for an error descriptor
IsFailure(o) == o.mode = "raise" \/ (o.mode = "return" /\ IsErrorResult(o.value))

\* the details a Failure carries: an exception carries its message only
FailureDetails(o) ==
    IF o.mode = "return" /\ IsErrorResult(o.value)
    THEN DictGet(o.value, "details", Absent)
    ELSE Absent

\* the message of a Failure
FailureMessage(o) ==
    IF o.mode = "raise" THEN o.exc.msg
    ELSE IF IsErrorResult(o.value) /\ o.value[2]["error"][1] = "str"
         THEN o.value[2]["error"][2]
    ELSE <<>>

Mentions(msg, part) == \E i \in DOMAIN msg : msg[i] = part

\* a configuration error: a Failure without details whose message says that
\* the method is unsupported (raised as ValueError by the blocking variant)
IsConfigError(o) ==
    /\ IsFailure(o)
    /\ FailureDetails(o) = Absent
    /\ Mentions(FailureMessage(o), "Unsupported HTTP method: ")
    /\ o.mode = "raise" => o.exc.type = "ValueError"

\* both are Failures with the same details, or both the same payload
SameOutcome(a, b) ==
    /\ IsFailure(a) <=> IsFailure(b)
    /\ IsFailure(a) => FailureDetails(a) = FailureDetails(b)
    /\ ~IsFailure(a) => a.value = b.value

---------------------------------------------------------------------------
(* The claims.                                                             *)

\* C1: a non-2xx response whose body is valid JSON yields, in the blocking and
\* in the non-blocking normaliser, a Failure whose details equal the parsed body.
C1_JsonErrorBodyIsDetails ==
    ( /\ pc = "done"
      /\ response.kind = "http"
      /\ ~Is2xx(response.status)
      /\ JsonLoads(response.text).ok )
    => /\ IsFailure(outcome)
       /\ FailureDetails(outcome) = JsonLoads(response.text).value

\* C2: a method outside GET, POST, PUT, DELETE issues no network call and yields
\* a configuration error, in both variants; no transport or remote-API failure
\* yields a configuration error.
C2_UnsupportedMethodFailsFast ==
    pc = "done" =>
        /\ Unsupported => /\ netCalls = 0
                          /\ ~request.sent
                          /\ response = NoResponse
                          /\ IsConfigError(outcome)
        /\ RequestFailed => ~IsConfigError(outcome)

\* C2 witness: the non-blocking normaliser was given PATCH and has answered.
C2_Witness ==
    /\ pc = "done"
    /\ call.variant = "async"
    /\ call.method = "PATCH"
    /\ IsConfigError(outcome)

C4_ToolRendersFailureAsError ==
    (pc = "done" /\ entry.layer = "tool" /\ RequestFailed) =>
        /\ toolOut.mode = "return"
        /\ IsDict(toolOut.value)
        /\ HasKey(toolOut.value, "error")

\* C5: a result of the non-blocking normaliser is taken for a Failure by its
\* callers if and only if the request failed.
C5_FailureIffRequestFailed ==
    (pc = "done" /\ call.variant = "async") =>
        (IsErrorResult(outcome.value) <=> (Unsupported \/ RequestFailed))

\* C6: for the same operation the blocking and the non-blocking normaliser
\* build the same request, and map the same response to the same Outcome.
C6_VariantsAgree ==
    /\ request.sent =>
          SyncRequest(client, call.method, call.endpoint, call.params, call.data)
          = AsyncRequest(client, call.method, call.endpoint, call.params, call.data)
    /\ pc = "done" =>
          SameOutcome(SyncOutcome(call.method, response),
                      AsyncOutcome(call.method, response))

C8_RawErrorBodyIsDetails ==
    ( /\ pc = "done"
      /\ response.kind = "http"
      /\ ~Is2xx(response.status)
      /\ ~JsonLoads(response.text).ok )
    => /\ IsFailure(outcome)
       /\ FailureDetails(outcome)
            = PyDict([ raw_response |-> PyStr(<<response.text>>) ])

\* C9: a 2xx response other than 204 whose body is not valid JSON yields a
\* Failure whose details carry the raw response text.
C9_ParseErrorCarriesRawText ==
    ( /\ pc = "done"
      /\ response.kind = "http"
      /\ Is2xx(response.status)
      /\ response.status # 204
      /\ ~JsonLoads(response.text).ok )
    => /\ IsFailure(outcome)
       /\ FailureDetails(outcome)
            = PyDict([ raw_response |-> PyStr(<<response.text>>) ])

\* C10: an exception raised by the blocking normaliser carries the details of
\* the Failure the non-blocking normaliser returns for the same response.
C10_RaisedErrorMatchesFailure ==
    (pc = "done" /\ call.variant = "sync" /\ outcome.mode = "raise") =>
        /\ IsFailure(AsyncOutcome(call.method, response))
        /\ FailureDetails(outcome)
             = FailureDetails(AsyncOutcome(call.method, response))

\* C11: an invocation with a supported method has made exactly one network
\* call from the moment its request is on the wire to the moment its result is
\* handed over, whatever the answer: no second call after a failure, and no
\* result without an answer to that call.
C11_ExactlyOneNetworkCall ==
    (pc \in {"awaiting", "done"} /\ SupportedCall) =>
        /\ netCalls = 1
        /\ request.sent
        /\ pc = "done" => response # NoResponse /\ outcome # NoOutcome

\* C11 witness: a call that met a connection error is over after one call.
C11_Witness ==
    /\ pc = "done"
    /\ SupportedCall
    /\ response.kind = "error"
    /\ IsFailure(outcome)
    /\ netCalls = 1

\* C12: an HTTP 204 answer yields Success(absent) in both variants whatever the
\* body holds, a body that is not JSON included: the body is not parsed.
C12_NoContentIsAbsent ==
    (pc = "done" /\ response.kind = "http" /\ response.status = 204) =>
        /\ outcome.mode = "return"
        /\ outcome.value = PyNone

\* C12 witness: a 204 whose body is not JSON was answered with None.
C12_Witness ==
    /\ pc = "done"
    /\ call.variant = "sync"
    /\ response.kind = "http"
    /\ response.status = 204
    /\ ~JsonLoads(response.text).ok
    /\ outcome = Returned(PyNone)

\* C13: a 2xx answer other than 204 whose body is valid JSON is returned, in
\* both variants, as the parsed body itself: the same object or array, with
\* the same fields and values.
C13_PayloadIsParsedBody ==
    ( /\ pc = "done"
      /\ response.kind = "http"
      /\ Is2xx(response.status)
      /\ response.status # 204
      /\ JsonLoads(response.text).ok )
    => /\ outcome.mode = "return"
       /\ outcome.value = JsonLoads(response.text).value

\* C13 witness: GET stories answered 200 with [{"id":1,"name":"A"}] returned
\* the list holding that one story.
C13_Witness ==
    /\ pc = "done"
    /\ call.variant = "async"
    /\ response = HttpResponse(200, "[{\"id\":1,\"name\":\"A\"}]")
    /\ outcome = Returned(PyList(<<StoryA>>))

\* C14: when no response was received at all, both variants yield a Failure
\* that carries a message and no details.
C14_NoResponseNoDetails ==
    (pc = "done" /\ response.kind = "error") =>
        /\ IsFailure(outcome)
        /\ Truthy(PyStr(FailureMessage(outcome)))
        /\ FailureDetails(outcome) = Absent

\* C14 witness: the non-blocking normaliser met a connection error and
\* returned a descriptor with an `error` field only.
C14_Witness ==
    /\ pc = "done"
    /\ call.variant = "async"
    /\ response = TransportFailure
    /\ IsErrorResult(outcome.value)
    /\ DOMAIN outcome.value[2] = {"error"}

\* C15: every request carries the query parameters of its operation; a GET or
\* a DELETE carries no body; a POST or a PUT carries the body of its operation
\* exactly when one was given, the empty object included.
C15_DispatchShapesRequest ==
    request.sent =>
        /\ request.params = call.params
        /\ request.verb \in {"GET", "DELETE"} => request.body = NoBody
        /\ request.verb \in {"POST", "PUT"} =>
              request.body = IF IsNone(call.data) THEN NoBody ELSE call.data

\* C16: of the invocations running concurrently on the shared client, each
\* has on the wire the request built from its own operation, and each ends
\* with the Outcome the normaliser gives for its own operation and the answer
\* to its own request, however the others are interleaved with it.
C16_ConcurrentAsIsolated ==
    \A t \in Tasks :
        /\ tasks[t].pc \in {"awaiting", "answered"} =>
              tasks[t].request
                = BuildRequest(tasks[t].call.variant, NewClient(SHORTCUT_API_BASE_URL),
                               tasks[t].call.method, tasks[t].call.endpoint,
                               tasks[t].call.params, tasks[t].call.data)
        /\ tasks[t].pc = "done" =>
              tasks[t].outcome
                = NormalizerOutcome(tasks[t].call.variant, tasks[t].call.method,
                                    tasks[t].answer)

\* C16 witness: two invocations were in flight together, the second was
\* answered while the first still held its unmapped response, and the first
\* went on to a result of its own.
C16_Witness ==
    /\ tasks[1].pc = "done"
    /\ tasks[1].answer = HttpResponse(404, "{\"message\":\"not found\"}")
    /\ tasks[2].pc = "answered"
    /\ tasks[2].answer = HttpResponse(204, "")
    /\ tasks[1].call # tasks[2].call

\* C17: no step of a normaliser invocation or of a wrapper or tool call built
\* on it, whether it ends in a result or in a failure, changes the client:
\* its base URL, its API token and its headers stay what the constructor set.
C17_ClientNeverMutated == [][client' = client]_vars

\* C17 witness: a call through a wrapper has failed and the client is as it
\* was constructed.
C17_Witness ==
    /\ pc = "done"
    /\ entry.layer = "tool"
    /\ RequestFailed
    /\ client.base_url = SHORTCUT_API_BASE_URL
    /\ client.api_token = SHORTCUT_API_TOKEN
    /\ client.headers = [ ContentType |-> "application/json",
                          ShortcutToken |-> SHORTCUT_API_TOKEN ]

\* the details carry the upstream error body: the parsed body, or its text
CarriesBody(details, resp) ==
    \/ JsonLoads(resp.text).ok /\ details = JsonLoads(resp.text).value
    \/ details = PyDict([ raw_response |-> PyStr(<<resp.text>>) ])
    \/ details = PyStr(<<resp.text>>)

\* C18: when the remote API answered non-2xx with a body and the tool handler
\* renders a failure, the object it renders has, next to `error`, a `details`
\* field that carries that body.
C18_RenderedFailureHasDetails ==
    ( /\ pc = "done"
      /\ entry.layer = "tool"
      /\ response.kind = "http"
      /\ ~Is2xx(response.status)
      /\ response.text # ""
      /\ toolOut.mode = "return"
      /\ IsErrorResult(toolOut.value) )
    => /\ HasKey(toolOut.value, "details")
       /\ CarriesBody(toolOut.value[2]["details"], response)

\* C19: every tool call ends by returning a JSON document, whatever its
\* arguments and whatever the request came to: a payload of any JSON shape,
\* an empty result or a failure.
C19_ToolAlwaysReturns ==
    (pc = "done" /\ entry.layer = "tool") => toolOut.mode = "return"

\* C20: every request on the wire, GET, POST, PUT or DELETE, blocking or
\* non-blocking, has the header Content-Type: application/json and the
\* Shortcut-Token header holding the configured API token.
C20_FixedHeaders ==
    request.sent =>
        /\ request.headers.ContentType = "application/json"
        /\ request.headers.ShortcutToken = SHORTCUT_API_TOKEN
        /\ request.headers.ShortcutToken = client.api_token

\* C20 witness: a PUT of the non-blocking variant is on the wire with both
\* headers.
C20_Witness ==
    /\ pc = "awaiting"
    /\ call.variant = "async"
    /\ request.sent
    /\ request.verb = "PUT"
    /\ request.headers = [ ContentType |-> "application/json",
                           ShortcutToken |-> SHORTCUT_API_TOKEN ]

\* C21: delete_epic and delete_epic_async return True when the remote API
\* answered the DELETE with a 2xx status and False for every other answer and
\* for a transport failure.
C21_DeleteReportsSuccess ==
    ( /\ pc = "done"
      /\ entry.name \in {"delete_epic", "ShortcutClient.delete_epic",
                         "ShortcutClient.delete_epic_async"} )
    => wrapperOut
         = Returned(PyBool(response.kind = "http" /\ Is2xx(response.status)))

\* the handler lists stories: the list_stories tool or the stories resource
ListsStories == entry.name \in {"list_stories", "get_stories_resource"}

\* the upstream answered with a list of stories that all validate
UpstreamStories ==
    /\ response.kind = "http"
    /\ Is2xx(response.status)
    /\ response.status # 204
    /\ JsonLoads(response.text).ok
    /\ IsList(JsonLoads(response.text).value)
    /\ AllValidSummaries(JsonLoads(response.text).value)

\* C22: for every limit >= 0 the list_stories tool and the stories resource
\* return the first `limit` stories of the upstream list, in upstream order,
\* and so at most `limit` of them.
C22_AtMostLimitStories ==
    (pc = "done" /\ ListsStories /\ UpstreamStories /\ entry.args.limit >= 0) =>
        LET upstream == JsonLoads(response.text).value[2]
            first    == Prefix(upstream, entry.args.limit)
        IN  toolOut = Returned(PyList([ i \in DOMAIN first |-> SummaryDump(first[i]) ]))

\* the synchronous list methods of the client
SyncListMethods ==
    {"ShortcutClient.get_stories", "ShortcutClient.list_epics"}
    \cup { w.name : w \in { x \in SyncWrappers : x.returns = "list" } }

\* the synchronous methods that have an asynchronous counterpart
OfferedInBothForms(name) == name # "ShortcutClient.get_members"

\* what the asynchronous counterpart of a synchronous method makes of the
\* non-blocking normaliser's result
AsyncCounterpart(name, o) ==
    CASE name = "ShortcutClient.get_stories" -> GetStoriesAsync(o)
      [] name = "ShortcutClient.list_epics"  -> ListEpicsAsync(o)
      [] name = "ShortcutClient.delete_epic" -> DeleteEpicAsync(o)
      [] OTHER ->
            LET w == CHOOSE x \in SyncWrappers : x.name = name
            IN  WrapperReturn([ w EXCEPT !.variant = "async" ], o)

\* C23: a synchronous client method returns, for the same upstream answer,
\* what its asynchronous counterpart returns, and a synchronous list method
\* returns a list whatever the answer.
C23_SyncMatchesAsync ==
    (pc = "done" /\ entry.layer = "wrapper" /\ call.variant = "sync") =>
        /\ OfferedInBothForms(entry.name) =>
              wrapperOut = AsyncCounterpart(entry.name,
                                            AsyncOutcome(call.method, response))
        /\ entry.name \in SyncListMethods =>
              wrapperOut.mode = "return" /\ IsList(wrapperOut.value)

\* the arguments of an update tool that become fields of the update
UpdatableFields(name) ==
    IF name = "update_story"
    THEN {"name", "description", "story_type", "workflow_state_id", "owner_ids",
          "epic_id", "story_links"}
    ELSE {"name", "description", "owner_ids"}

\* the updatable fields the caller supplied
Supplied == { k \in UpdatableFields(entry.name) : ~IsNone(entry.args[k]) }

\* C24: update_story and update_epic without any updatable field return an
\* error object and issue no request; with at least one they issue exactly one
\* PUT whose body holds the supplied fields and no others.
C24_UpdateSendsSuppliedFields ==
    (pc \in {"awaiting", "done"} /\ entry.name \in {"update_story", "update_epic"}) =>
        /\ Supplied = {} =>
              /\ pc = "done"
              /\ ~request.sent
              /\ netCalls = 0
              /\ toolOut.mode = "return"
              /\ IsErrorResult(toolOut.value)
        /\ Supplied # {} =>
              /\ netCalls = 1
              /\ request.sent
              /\ request.verb = "PUT"
              /\ request.body = PyDict([ k \in Supplied |-> entry.args[k] ])

\* C24 witness: update_story was given an empty name and the workflow state
\* 0, and its PUT is on the wire with both.
C24_Witness ==
    /\ pc = "awaiting"
    /\ entry.name = "update_story"
    /\ Supplied = {"name", "workflow_state_id"}
    /\ request.verb = "PUT"
    /\ request.body = PyDict([ name |-> PyStr(<<"">>), workflow_state_id |-> PyInt(0) ])

\* the name under which a filter argument is sent
FilterParam(k) == IF k = "owner_id" THEN "owner_ids[]" ELSE k

\* C25: the list_stories tool and the stories resource send a filter as a
\* query parameter, with the value given, exactly when the caller supplied the
\* argument, and send no other parameter.
C25_FiltersSentWhenSupplied ==
    (request.sent /\ ListsStories) =>
        LET filters == {"workflow_state_id", "project_id", "owner_id"}
        IN  /\ IsDict(request.params)
            /\ \A k \in filters :
                  IF IsNone(entry.args[k])
                  THEN ~HasKey(request.params, FilterParam(k))
                  ELSE /\ HasKey(request.params, FilterParam(k))
                       /\ request.params[2][FilterParam(k)] = entry.args[k]
            /\ DOMAIN request.params[2] \subseteq { FilterParam(k) : k \in filters }

\* C26: search_stories called with an empty query returns the error object
\* "Search query is required", and neither invokes the normaliser nor puts a
\* request on the wire.
C26_EmptyQueryIsRefused ==
    (entry.name = "search_stories" /\ entry.args.query = "") =>
        /\ pc = "done"
        /\ toolOut = Returned(PyDict([ error |-> PyStr(<<"Search query is required">>) ]))
        /\ call = NoCall
        /\ ~request.sent
        /\ netCalls = 0

\* C26 witness: search_stories("") has answered.
C26_Witness ==
    /\ pc = "done"
    /\ entry = ToolEntry("search_stories", [ query |-> "", limit |-> 25 ])
    /\ IsErrorResult(toolOut.value)
    /\ ~request.sent

\* C27: every method of the client, and so every tool and resource handler,
\* calls the normaliser with GET, POST, PUT or DELETE, and none of them ends
\* in the unsupported-method failure.
C27_WrappersUseSupportedMethods ==
    (entry.layer \in {"wrapper", "tool", "resource"} /\ call # NoCall) =>
        /\ call.method \in Supported
        /\ ~Unsupported
        /\ pc = "done" => ~IsConfigError(outcome)

C27_Witness ==
    /\ pc = "done"
    /\ entry.layer = "wrapper"
    /\ entry.name = "ShortcutClient.update_epic_async"
    /\ call.method = "PUT"
    /\ netCalls = 1
    /\ ~IsConfigError(outcome)

====
